---- MODULE Spec2Model ----
(***************************************************************************)
(* Model of velox/exec/fuzzer/PrestoQueryRunner.cpp: the reference query   *)
(* runner that compiles a plan to Presto SQL, materializes the plan's      *)
(* input tables in Presto, runs the SQL over Presto's HTTP statement       *)
(* protocol and hands the decoded pages back to the fuzzer.                *)
(*                                                                         *)
(* One entry of `calls' is one execute(plan) call in flight.  Every HTTP   *)
(* round trip and every file write is one step.  `engine' is the Presto    *)
(* server's tables together with the files in their directories.  `probe'  *)
(* is one call of the fuzzer to the compiler or to one of the two          *)
(* predicates, with its argument and its answer.                           *)
(***************************************************************************)
EXTENDS Integers, Sequences, FiniteSets, Bags, TLC

VARIABLES calls, engine, probe

vars == <<calls, engine, probe>>

(***************************************************************************)
(* Bounds.                                                                 *)
(***************************************************************************)
\* Largest number of continuation GETs the server asks for in one statement.
MaxPolls == 2
\* Largest number of binaryData entries in one response.
MaxPages == 1

Callers == {1}
Tables == {"t1", "t2"}
\* The table every TableWrite plan creates.
WriteTable == "tmp_write"
Uris == {"u1", "u2"}

(***************************************************************************)
(* Texts the code matches on or the transport reports.                     *)
(***************************************************************************)
ConnectText == "Couldn't connect to server"
TimeoutText == "Operation timed out"
TableMissingText == "Table does not exist"
ErrorMessages == {TableMissingText, ConnectText}

(***************************************************************************)
(* Types and typed expressions.  A type carries its name, whether it is a  *)
(* primitive type and which of the specially handled types it is.          *)
(***************************************************************************)
Type(name, primitive, tag) == [name |-> name, primitive |-> primitive, tag |-> tag]

INTEGER == Type("INTEGER", TRUE, "plain")
Types ==
    { INTEGER, Type("VARCHAR", TRUE, "plain"), Type("DOUBLE", TRUE, "plain"),
      Type("TIMESTAMP", TRUE, "timestamp"), Type("JSON", TRUE, "json"),
      Type("INTERVAL DAY TO SECOND", TRUE, "intervalDayTime"),
      Type("IPADDRESS", TRUE, "ipaddress"),
      Type("IPPREFIX", FALSE, "ipprefix"), Type("UUID", TRUE, "uuid"),
      Type("ARRAY", FALSE, "plain"), Type("MAP", FALSE, "plain"),
      Type("ROW", FALSE, "plain") }

isPrimitiveType(type) == type.primitive
isTimestamp(type) == type.tag = "timestamp"
isJsonType(type) == type.tag = "json"
isIntervalDayTime(type) == type.tag = "intervalDayTime"
isIPAddressType(type) == type.tag = "ipaddress"
isIPPrefixType(type) == type.tag = "ipprefix"
isUuidType(type) == type.tag = "uuid"

\* The classes of core::ITypedExpr; Lambda stands for the classes that
\* toSql(ProjectNode) does not cast to.
ExprKinds == {"FieldAccess", "Call", "Cast", "Concat", "Constant", "Lambda"}
Expr(kind, type) == [kind |-> kind, type |-> type, name |-> "c0"]

(***************************************************************************)
(* Plans.  A node carries its kind, its sources and, for a Values leaf,    *)
(* the table name, the number of columns and the data of its vectors.      *)
(* dwrf says whether the node's output type passes isSupportedDwrfType and *)
(* names are the column names of its output type.  The other fields are    *)
(* the attributes the compiler reads: the aggregation step, the            *)
(* projections, the window functions, the partition and sorting keys,      *)
(* whether the row number is generated, the limit, and frames, the entry   *)
(* queryRunnerContext_->windowFrames_ holds under the node's id.           *)
(***************************************************************************)
\* The bucket property of a HiveInsertTableHandle, if it has one.
NoBucketProperty ==
    [has |-> FALSE, bucketCount |-> "0", bucketedBy |-> <<>>,
     sortedBy |-> <<>>]
\* connector::hive::HiveInsertTableHandle: its input columns, each a name
\* and whether it is a partition key, and its bucket property.
InsertTableHandle(columns, bucket) ==
    [inputColumns |-> columns, bucketProperty |-> bucket]

NoFrames == [has |-> FALSE, v |-> <<>>]
Frames(v) == [has |-> TRUE, v |-> v]

ColumnNames == <<"c0", "c1", "c2">>

Node(k, srcs) ==
    [kind |-> k, table |-> "", cols |-> 0, data |-> "", dwrf |-> TRUE,
     sources |-> srcs, names |-> <<>>, step |-> "single",
     projections |-> <<>>, functions |-> <<>>, frames |-> NoFrames,
     partitionKeys |-> <<>>, sortingKeys |-> <<>>,
     generateRowNumber |-> FALSE, limit |-> "0",
     groupingKeys |-> <<>>, aggregates |-> <<>>, aggregateNames |-> <<>>,
     handle |-> InsertTableHandle(<<>>, NoBucketProperty)]

Values(t, n, d, ok) ==
    [Node("Values", <<>>) EXCEPT !.table = t, !.cols = n, !.data = d,
        !.dwrf = ok, !.names = SubSeq(ColumnNames, 1, n)]

PlanSet ==
    { Values("t1", 1, "d1", TRUE),
      Node("Project", <<Values("t1", 2, "d2", TRUE)>>),
      Node("Aggregation", <<Values("t1", 0, "d1", TRUE)>>),
      Node("HashJoin", <<Values("t1", 1, "d2", TRUE),
                         Values("t2", 0, "d1", TRUE)>>),
      Node("TableWrite", <<Values("t1", 2, "d2", TRUE)>>),
      Node("Window", <<Values("t2", 1, "d1", FALSE)>>),
      Node("Project", <<Node("RowNumber", <<Values("t1", 1, "d1", FALSE)>>)>>),
      Node("Limit", <<Values("t1", 1, "d1", TRUE)>>) }

(***************************************************************************)
(* Exceptions: the C++ type and the pieces the message is formatted from.  *)
(***************************************************************************)
NoExc == [type |-> "none", msg |-> <<>>]
VeloxRuntimeError(msg) == [type |-> "VeloxRuntimeError", msg |-> msg]
OtherException(what) == [type |-> "other", msg |-> <<what>>]

\* e.message().find(text) != npos, the message being the concatenation of
\* its pieces and none of the fixed pieces containing the text.
MessageFind(e, text) == \E i \in 1..Len(e.msg) : e.msg[i] = text

(***************************************************************************)
(* The compiler.  The result is the optional SQL text, or the exception    *)
(* that left toSql.                                                        *)
(***************************************************************************)
SqlOf(text) == [tag |-> "sql", text |-> text, exc |-> NoExc]
NullOpt == [tag |-> "none", text |-> <<>>, exc |-> NoExc]
Thrown(e) == [tag |-> "throw", text |-> <<>>, exc |-> e]

SingleSourceKinds ==
    {"Project", "Window", "Aggregation", "RowNumber", "TopNRowNumber",
     "TableWrite"}
JoinKinds == {"HashJoin", "NestedLoopJoin"}

\* VELOX_NYI()
NotYetImplemented == VeloxRuntimeError(<<"Not yet implemented">>)
\* The exception of std::map::at and std::vector::at.
OutOfRange == OtherException("out_of_range")

\* A list of texts written with appendComma between its elements.
RECURSIVE CommaList(_)
CommaList(texts) ==
    IF Len(texts) = 0 THEN <<>>
    ELSE IF Len(texts) = 1 THEN texts[1]
    ELSE texts[1] \o <<",">> \o CommaList(Tail(texts))

\* A list of names written with appendComma between its elements.
NameList(names) == CommaList([i \in 1..Len(names) |-> <<names[i]>>])

\* toConstantSql: a literal whose text depends on the type.
toConstantSql(constant) == <<"literal", constant.type.name>>

\* The text of one projection, for the classes toSql(ProjectNode) casts to.
projectionSql(projection) ==
    CASE projection.kind = "FieldAccess" -> <<projection.name>>
      [] projection.kind = "Call" -> <<"call">>
      [] projection.kind = "Cast" -> <<"cast">>
      [] projection.kind = "Concat" -> <<"concat">>
      [] projection.kind = "Constant" -> toConstantSql(projection)

\* Variant: a projection of an unknown class makes the plan unsupported.
toSqlProjectionsUnknownNone(node, source) ==
    IF \E i \in 1..Len(node.projections) :
            node.projections[i].kind \notin
                {"FieldAccess", "Call", "Cast", "Concat", "Constant"}
    THEN NullOpt
    ELSE SqlOf(<<"SELECT", "FROM (">> \o source.text \o <<")">>)

\* The loop of toSql(ProjectNode) over the projections, and its FROM.
toSqlProjections(node, source) ==
    IF \E i \in 1..Len(node.projections) :
            node.projections[i].kind \notin
                {"FieldAccess", "Call", "Cast", "Concat", "Constant"}
    THEN Thrown(NotYetImplemented)
    ELSE SqlOf(<<"SELECT">>
               \o CommaList(
                      [i \in 1..Len(node.projections) |->
                          projectionSql(node.projections[i])
                          \o <<"as", node.names[i]>>])
               \o <<"FROM (">> \o source.text \o <<")">>)

\* Variant: the type decides for every expression, constant or not.
isConstantExprSupportedAnyExpr(expr) ==
    /\ isPrimitiveType(expr.type)
    /\ expr.type.tag = "plain"

\* isConstantExprSupported
isConstantExprSupported(expr) ==
    IF expr.kind = "Constant"
    THEN /\ isPrimitiveType(expr.type)
         /\ ~isTimestamp(expr.type)
         /\ ~isJsonType(expr.type)
         /\ ~isIntervalDayTime(expr.type)
         /\ ~isIPAddressType(expr.type)
         /\ ~isIPPrefixType(expr.type)
         /\ ~isUuidType(expr.type)
    ELSE TRUE

\* Variant: a constant the predicate rejects makes the plan unsupported.
toSqlProjectChecksConstants(node, source) ==
    IF source.tag # "sql" THEN source
    ELSE IF \E i \in 1..Len(node.projections) :
                ~isConstantExprSupported(node.projections[i])
    THEN NullOpt
    ELSE toSqlProjections(node, source)

\* toSql(ProjectNode), given the result of compiling its source.
toSqlProject(node, source) ==
    IF source.tag # "sql" THEN source
    ELSE toSqlProjections(node, source)

\* toWindowCallSql
toWindowCallSql(call, ignoreNulls) ==
    <<call.name, "(", ")">>
    \o (IF ignoreNulls THEN <<"IGNORE NULLS">> ELSE <<>>)

partitionBySql(keyword, keys) ==
    IF Len(keys) = 0 THEN <<>> ELSE <<keyword>> \o NameList(keys)

orderBySql(keys) ==
    IF Len(keys) = 0 THEN <<>>
    ELSE <<"ORDER BY">>
         \o CommaList([j \in 1..Len(keys) |->
                                  <<keys[j].name, keys[j].order>>])

\* Whether windowFrames_.at(id).at(i) finds the frame of function i.
hasFrame(node, i) == node.frames.has /\ i <= Len(node.frames.v)

\* Variant: a window function without a frame entry is written without frame.
toSqlWindowNoFrameCheck(node, source) ==
    IF ~node.sources[1].dwrf THEN NullOpt
    ELSE IF source.tag # "sql" THEN source
    ELSE SqlOf(<<"SELECT">> \o NameList(node.sources[1].names) \o <<",">>
               \o CommaList(
                      [i \in 1..Len(node.functions) |->
                          toWindowCallSql(node.functions[i],
                                          node.functions[i].ignoreNulls)
                          \o <<"OVER (">>
                          \o partitionBySql("PARTITION BY", node.partitionKeys)
                          \o orderBySql(node.sortingKeys)
                          \o (IF hasFrame(node, i) THEN <<node.frames.v[i]>>
                              ELSE <<>>)
                          \o <<")">>])
               \o <<"FROM">> \o source.text)

\* toSql(WindowNode), given the result of compiling its source.
toSqlWindow(node, source) ==
    IF ~node.sources[1].dwrf THEN NullOpt
    ELSE IF \E i \in 1..Len(node.functions) : ~hasFrame(node, i)
    THEN Thrown(OutOfRange)
    ELSE IF source.tag # "sql" THEN source
    ELSE SqlOf(<<"SELECT">> \o NameList(node.sources[1].names) \o <<",">>
               \o CommaList(
                      [i \in 1..Len(node.functions) |->
                          toWindowCallSql(node.functions[i],
                                          node.functions[i].ignoreNulls)
                          \o <<"OVER (">>
                          \o partitionBySql("PARTITION BY", node.partitionKeys)
                          \o orderBySql(node.sortingKeys)
                          \o <<node.frames.v[i], ")">>])
               \o <<"FROM">> \o source.text)

\* toAggregateCallSql: the call with the distinct flag and the sort keys
\* inside its argument list.
toAggregateCallSql(call, sortingKeys, distinct) ==
    <<call, "(">> \o (IF distinct THEN <<"distinct">> ELSE <<>>) \o <<"x">>
    \o orderBySql(sortingKeys) \o <<")">>

\* Variant: the mask of an aggregate is not written.
aggregatesSqlNoFilter(node) ==
    IF Len(node.aggregates) = 0 THEN <<>>
    ELSE (IF Len(node.groupingKeys) # 0 THEN <<",">> ELSE <<>>)
         \o CommaList(
                [i \in 1..Len(node.aggregates) |->
                    toAggregateCallSql(node.aggregates[i].call,
                                       node.aggregates[i].sortingKeys,
                                       node.aggregates[i].distinct)
                    \o <<"as", node.aggregateNames[i]>>])

\* The aggregates of toSql(AggregationNode): what follows the grouping keys
\* in the select list.
aggregatesSql(node) ==
    IF Len(node.aggregates) = 0 THEN <<>>
    ELSE (IF Len(node.groupingKeys) # 0 THEN <<",">> ELSE <<>>)
         \o CommaList(
                [i \in 1..Len(node.aggregates) |->
                    toAggregateCallSql(node.aggregates[i].call,
                                       node.aggregates[i].sortingKeys,
                                       node.aggregates[i].distinct)
                    \o (IF node.aggregates[i].mask.has
                        THEN <<"filter (where", node.aggregates[i].mask.v,
                               ")">>
                        ELSE <<>>)
                    \o <<"as", node.aggregateNames[i]>>])

\* The statement of toSql(AggregationNode) around the source's text.
aggregationSql(node, source) ==
    <<"SELECT">> \o NameList(node.groupingKeys) \o aggregatesSql(node)
    \o <<"FROM">> \o source
    \o (IF Len(node.groupingKeys) # 0
        THEN <<"GROUP BY">> \o NameList(node.groupingKeys)
        ELSE <<>>)

\* Variant: the source's type is looked at before the step.
toSqlAggregationTypeFirst(node, source) ==
    IF ~node.sources[1].dwrf THEN NullOpt
    ELSE IF node.step # "single"
    THEN Thrown(VeloxRuntimeError(<<"step == kSingle">>))
    ELSE IF source.tag # "sql" THEN source
    ELSE SqlOf(aggregationSql(node, source.text))

\* toSql(AggregationNode), given the result of compiling its source.
toSqlAggregation(node, source) ==
    IF node.step # "single"
    THEN Thrown(VeloxRuntimeError(<<"step == kSingle">>))
    ELSE IF ~node.sources[1].dwrf THEN NullOpt
    ELSE IF source.tag # "sql" THEN source
    ELSE SqlOf(aggregationSql(node, source.text))

\* Variant: the row-number query is written around whatever the source gave.
toSqlRowNumberAroundAnySource(node, source) ==
    IF ~node.sources[1].dwrf THEN NullOpt
    ELSE SqlOf(<<"SELECT">> \o NameList(node.sources[1].names)
               \o <<", row_number() OVER (">>
               \o partitionBySql("partition by", node.partitionKeys)
               \o <<") as", "row_number", "FROM">> \o source.text)

\* toSql(RowNumberNode), given the result of compiling its source.
toSqlRowNumber(node, source) ==
    IF ~node.sources[1].dwrf THEN NullOpt
    ELSE IF source.tag # "sql" THEN source
    ELSE SqlOf(<<"SELECT">> \o NameList(node.sources[1].names)
               \o <<", row_number() OVER (">>
               \o partitionBySql("partition by", node.partitionKeys)
               \o <<") as", "row_number", "FROM">> \o source.text)

\* rowNumberColumnName of toSql(TopNRowNumberNode)
rowNumberColumnName(node) ==
    IF node.generateRowNumber THEN node.names[Len(node.names)]
    ELSE "row_number"

\* toSql(TopNRowNumberNode), given the result of compiling its source.
toSqlTopNRowNumber(node, source) ==
    IF ~node.sources[1].dwrf THEN NullOpt
    ELSE IF source.tag # "sql" THEN source
    ELSE SqlOf(<<"SELECT * FROM (SELECT">>
               \o NameList(node.sources[1].names)
               \o <<", row_number() OVER (">>
               \o partitionBySql("partition by", node.partitionKeys)
               \o orderBySql(node.sortingKeys)
               \o <<") as", rowNumberColumnName(node), "FROM">>
               \o source.text
               \o <<")", "where", rowNumberColumnName(node), "<=",
                    node.limit>>)

\* The names of the input columns that are partition keys, in their order.
RECURSIVE partitionKeysOf(_)
partitionKeysOf(columns) ==
    IF columns = <<>> THEN <<>>
    ELSE (IF Head(columns).isPartitionKey THEN <<Head(columns).name>>
          ELSE <<>>)
         \o partitionKeysOf(Tail(columns))

\* HiveInsertTableHandle::isPartitioned: some input column is a partition key.
isPartitioned(handle) ==
    \E i \in 1..Len(handle.inputColumns) :
        handle.inputColumns[i].isPartitionKey

\* A list of names, each between quotes, inside ARRAY[ ... ],
arraySql(keyword, names) == <<keyword>> \o NameList(names) \o <<"],">>

\* The SORTED_BY property of toSql(TableWriteNode).
sortedBySql(sortColumns) ==
    IF Len(sortColumns) = 0 THEN <<>>
    ELSE <<"SORTED_BY = ARRAY[">>
         \o CommaList([i \in 1..Len(sortColumns) |->
                 <<sortColumns[i].sortColumn,
                   IF sortColumns[i].isAscending THEN "ASC" ELSE "DESC">>])
         \o <<"],">>

\* The table properties of toSql(TableWriteNode) before FORMAT.
tablePropertiesSql(handle) ==
    IF isPartitioned(handle)
    THEN arraySql("PARTITIONED_BY = ARRAY[",
                  partitionKeysOf(handle.inputColumns))
         \o (IF handle.bucketProperty.has
             THEN <<"BUCKET_COUNT =", handle.bucketProperty.bucketCount,
                    ",">>
                  \o arraySql("BUCKETED_BY = ARRAY[",
                              handle.bucketProperty.bucketedBy)
                  \o sortedBySql(handle.bucketProperty.sortedBy)
             ELSE <<>>)
    ELSE <<>>

\* toSql(TableWriteNode), given the result of compiling its source.
toSqlTableWrite(node, source) ==
    IF source.tag # "sql" THEN source
    ELSE SqlOf(<<"CREATE TABLE", WriteTable, "WITH (">>
               \o tablePropertiesSql(node.handle)
               \o <<"FORMAT = 'ORC')", "AS SELECT * FROM">> \o source.text)

\* toSql of a Project, Window, Aggregation, RowNumber, TopNRowNumber or
\* TableWrite node, given the result of compiling its source.
toSqlSingleSource(node, source) ==
    CASE node.kind = "Project" -> toSqlProject(node, source)
      [] node.kind = "Window" -> toSqlWindow(node, source)
      [] node.kind = "Aggregation" -> toSqlAggregation(node, source)
      [] node.kind = "RowNumber" -> toSqlRowNumber(node, source)
      [] node.kind = "TopNRowNumber" -> toSqlTopNRowNumber(node, source)
      [] node.kind = "TableWrite" -> toSqlTableWrite(node, source)

\* toSql of a join node, given the results of compiling its two sources.
toSqlJoin(node, left, right) ==
    IF left.tag # "sql" THEN left
    ELSE IF right.tag # "sql" THEN right
    ELSE SqlOf(<<node.kind, "(">> \o left.text \o <<",">>
               \o right.text \o <<")">>)

\* toSql of a Values or TableScan node: the name of its table.
toSqlLeaf(node) == SqlOf(<<node.table>>)

\* Variant: a plan of an unknown class is unsupported.
toSqlUnmatchedNone(node) == NullOpt

\* The end of the dispatch: no cast matched.
toSqlUnmatched(node) == Thrown(NotYetImplemented)

\* toSql(plan): the dispatch on the node's kind.
RECURSIVE toSql(_)
toSql(node) ==
    IF node.kind \in SingleSourceKinds
    THEN toSqlSingleSource(node, toSql(node.sources[1]))
    ELSE IF node.kind \in JoinKinds
    THEN toSqlJoin(node, toSql(node.sources[1]), toSql(node.sources[2]))
    ELSE IF node.kind \in {"Values", "TableScan"}
    THEN toSqlLeaf(node)
    ELSE toSqlUnmatched(node)

(***************************************************************************)
(* Function signatures.  A type signature is a base name with parameters;  *)
(* a name is its letters in lower case together with the case it is        *)
(* written in.                                                             *)
(***************************************************************************)
Name(text, casing) == [text |-> text, casing |-> casing]
Lower(text) == Name(text, "lower")
\* exec::sanitizeName: the name in lower case.
sanitizeName(name) == Name(name.text, "lower")

TypeSignature(base, params) == [baseName |-> base, parameters |-> params]
FunctionSignature(args, ret) == [argumentTypes |-> args, returnType |-> ret]
NoSignature == FunctionSignature(<<>>, TypeSignature(Lower("none"), <<>>))

\* Whether the type signature or one of its parameters has the name.
RECURSIVE containTypeName(_, _)
containTypeName(type, typeName) ==
    \/ sanitizeName(type.baseName) = sanitizeName(typeName)
    \/ \E i \in 1..Len(type.parameters) :
            containTypeName(type.parameters[i], typeName)

\* Whether an argument type of the signature uses the name.
usesInputTypeName(signature, typeName) ==
    \E i \in 1..Len(signature.argumentTypes) :
        containTypeName(signature.argumentTypes[i], typeName)

\* Whether an argument type or the return type of the signature uses the name.
usesTypeName(signature, typeName) ==
    \/ containTypeName(signature.returnType, typeName)
    \/ usesInputTypeName(signature, typeName)

\* Variant: every name is looked for in the return type too.
isSupportedReturnTypeToo(signature) ==
    ~\E text \in {"bingtile", "interval year to month", "hugeint",
                  "hyperloglog", "tdigest", "json", "ipaddress", "ipprefix",
                  "uuid"} : usesTypeName(signature, Lower(text))

\* isSupported
isSupported(signature) ==
    ~(\/ usesTypeName(signature, Lower("bingtile"))
      \/ usesTypeName(signature, Lower("interval year to month"))
      \/ usesTypeName(signature, Lower("hugeint"))
      \/ usesTypeName(signature, Lower("hyperloglog"))
      \/ usesTypeName(signature, Lower("tdigest"))
      \/ usesInputTypeName(signature, Lower("json"))
      \/ usesInputTypeName(signature, Lower("ipaddress"))
      \/ usesInputTypeName(signature, Lower("ipprefix"))
      \/ usesInputTypeName(signature, Lower("uuid")))

(***************************************************************************)
(* ServerResponse::queryResults on the fields of the parsed JSON.  A       *)
(* response has or lacks a binaryData field, a list of base64 texts, and   *)
(* has or lacks a columns field, a list of columns with a name and the     *)
(* text of a type.                                                         *)
(***************************************************************************)
NoField == [has |-> FALSE, v |-> <<>>]
Field(v) == [has |-> TRUE, v |-> v]
Json(binaryData, columns) == [binaryData |-> binaryData, columns |-> columns]

\* encoding::Base64::decode on the texts the server sends here.
Encoded == {"cDE=", "cDI="}
Base64Decode(text) == IF text = "cDE=" THEN "p1" ELSE "p2"
Base64Error == OtherException("Base64DecodeError")

\* parseType: the type a type text names.
TypeTexts == {"integer", "varchar"}
parseType(text) ==
    IF text = "integer" THEN INTEGER ELSE Type("VARCHAR", TRUE, "plain")
ParseError == VeloxRuntimeError(<<"Failed to parse type">>)

\* ROW(names, types)
ROW(names, types) == [names |-> names, types |-> types]

\* deserialize(rowType, data, pool): the batch of one page.
deserialize(rowType, input) == [type |-> rowType, data |-> input]

\* What a call of queryResults gives: its vectors or its exception, and the
\* fields of the response it has looked at.
Vectors(v, read) == [tag |-> "ok", v |-> v, exc |-> NoExc, read |-> read]
VectorsThrown(e, read) == [tag |-> "throw", v |-> <<>>, exc |-> e, read |-> read]

\* Variant: the columns are read before binaryData is looked for.
ServerResponse_queryResultsColumnsFirst(response) ==
    IF ~response.columns.has
    THEN VectorsThrown(OutOfRange, {"columns"})
    ELSE IF \E i \in 1..Len(response.columns.v) :
                response.columns.v[i].type \notin TypeTexts
    THEN VectorsThrown(ParseError, {"columns"})
    ELSE IF ~response.binaryData.has THEN Vectors(<<>>, {"binaryData", "columns"})
    ELSE IF \E i \in 1..Len(response.binaryData.v) :
                response.binaryData.v[i] \notin Encoded
    THEN VectorsThrown(Base64Error, {"binaryData", "columns"})
    ELSE LET rowType ==
                 ROW([i \in 1..Len(response.columns.v) |->
                         response.columns.v[i].name],
                     [i \in 1..Len(response.columns.v) |->
                         parseType(response.columns.v[i].type)])
         IN  Vectors([i \in 1..Len(response.binaryData.v) |->
                         deserialize(rowType,
                                     Base64Decode(response.binaryData.v[i]))],
                     {"binaryData", "columns"})

\* ServerResponse::queryResults
ServerResponse_queryResults(response) ==
    IF ~response.binaryData.has THEN Vectors(<<>>, {"binaryData"})
    ELSE IF ~response.columns.has
    THEN VectorsThrown(OutOfRange, {"binaryData", "columns"})
    ELSE IF \E i \in 1..Len(response.columns.v) :
                response.columns.v[i].type \notin TypeTexts
    THEN VectorsThrown(ParseError, {"binaryData", "columns"})
    ELSE IF \E i \in 1..Len(response.binaryData.v) :
                response.binaryData.v[i] \notin Encoded
    THEN VectorsThrown(Base64Error, {"binaryData", "columns"})
    ELSE LET rowType ==
                 ROW([i \in 1..Len(response.columns.v) |->
                         response.columns.v[i].name],
                     [i \in 1..Len(response.columns.v) |->
                         parseType(response.columns.v[i].type)])
         IN  Vectors([i \in 1..Len(response.binaryData.v) |->
                         deserialize(rowType,
                                     Base64Decode(response.binaryData.v[i]))],
                     {"binaryData", "columns"})

(***************************************************************************)
(* A call of toSql, isConstantExprSupported or isSupported on its own.     *)
(***************************************************************************)
NoPlan == Node("none", <<>>)
NoExpr == Expr("none", INTEGER)

Probe(fn, node, expr, signature) ==
    [fn |-> fn, node |-> node, expr |-> expr, signature |-> signature,
     done |-> FALSE, sql |-> NullOpt, ok |-> FALSE,
     response |-> Json(NoField, NoField), vectors |-> Vectors(<<>>, {})]
NoProbe == Probe("none", NoPlan, NoExpr, NoSignature)

(***************************************************************************)
(* Inputs of the plan's leaf tables.                                       *)
(***************************************************************************)
NoInput == [cols |-> 0, data |-> <<"none">>]
Input(n, d) == [cols |-> n, data |-> <<d>>]

\* The row CREATE TABLE ... AS SELECT cast(null as ...) puts in a new table.
PlaceholderRow(n) == [cols |-> n, data |-> <<"placeholder">>]

\* getAllTables: table name -> vectors of every Values leaf of the plan.
RECURSIVE getAllTables(_)
getAllTables(node) ==
    IF node.kind = "Values" THEN (node.table :> Input(node.cols, node.data))
    ELSE IF Len(node.sources) = 0 THEN <<>>
    ELSE IF Len(node.sources) = 1 THEN getAllTables(node.sources[1])
    ELSE getAllTables(node.sources[1]) @@ getAllTables(node.sources[2])

\* makeNullRows(input, "<table>x"): one all-null column, as many rows.
makeNullRows(input, name) == [cols |-> 1, data |-> <<"nulls">> \o input.data]

\* Variant: the inputs are used as they are.
keepEmptyInputs(inputMap) == inputMap

\* First loop of executeAndReturnVector: inputs whose row type is empty are
\* replaced by null rows.
replaceEmptyInputs(inputMap) ==
    [t \in DOMAIN inputMap |->
        IF inputMap[t].cols = 0 THEN makeNullRows(inputMap[t], t)
        ELSE inputMap[t]]

(***************************************************************************)
(* The Presto server: per table, whether it exists, its column count,      *)
(* whether the placeholder row is still in it, and the data file the       *)
(* runner wrote into its directory.  A table's directory is named after    *)
(* the table.                                                              *)
(***************************************************************************)
NoTable == [exists |-> FALSE, cols |-> 0, placeholder |-> FALSE,
            file |-> NoInput]

\* Variant: every table lives in the directory of t1.
TableDirectoryShared(t) == <<"file:", "t1">>

\* The directory the server keeps the table's files in.
TableDirectory(t) == <<"file:", t>>
PlaceholderPath(t) == TableDirectory(t) \o <<"placeholder.dwrf">>
\* Variant: the file's own path is taken for its directory.
parent_pathSame(path) == path

\* fs::path(filePath).parent_path()
parent_path(path) == SubSeq(path, 1, Len(path) - 1)

\* What a SELECT over the table reads.
TableContents(tbl) ==
    IF ~tbl.exists THEN {}
    ELSE (IF tbl.placeholder THEN {PlaceholderRow(tbl.cols)} ELSE {})
         \cup (IF tbl.file # NoInput THEN {tbl.file} ELSE {})

(***************************************************************************)
(* Statements sent to the server.                                          *)
(***************************************************************************)
Statement(op, t, n, text) == [op |-> op, table |-> t, cols |-> n, text |-> text]
NoStatement == Statement("none", "", 0, <<>>)

\* Whether the statement is the CREATE TABLE tmp_write ... AS SELECT of a
\* TableWrite plan.
createsWriteTable(stmt) ==
    /\ stmt.op = "QUERY"
    /\ Len(stmt.text) >= 2
    /\ stmt.text[1] = "CREATE TABLE"
    /\ stmt.text[2] = WriteTable

\* Whether the server can complete the statement without reporting an error.
EngineAccepts(stmt, eng, tables) ==
    CASE stmt.op = "DROP" -> TRUE
      [] stmt.op = "CREATE" -> ~eng[stmt.table].exists
      [] stmt.op = "PATH" -> eng[stmt.table].exists /\ eng[stmt.table].placeholder
      [] stmt.op = "DELETE" -> eng[stmt.table].exists
      [] stmt.op = "QUERY" ->
            /\ \A t \in tables : eng[t].exists
            /\ createsWriteTable(stmt) => ~eng[WriteTable].exists
      [] OTHER -> FALSE

\* The effect of a completed statement on the server.
EngineApply(stmt, eng) ==
    CASE stmt.op = "DROP" -> [eng EXCEPT ![stmt.table] = NoTable]
      [] stmt.op = "CREATE" ->
            [eng EXCEPT ![stmt.table] =
                [exists |-> TRUE, cols |-> stmt.cols, placeholder |-> TRUE,
                 file |-> NoInput]]
      [] stmt.op = "DELETE" ->
            [eng EXCEPT ![stmt.table] =
                [@ EXCEPT !.placeholder = FALSE, !.file = NoInput]]
      [] createsWriteTable(stmt) ->
            [eng EXCEPT ![WriteTable] = [@ EXCEPT !.exists = TRUE]]
      [] OTHER -> eng

\* A server without tables.
NoTables == [t \in Tables \cup {WriteTable} |-> NoTable]

(***************************************************************************)
(* HTTP replies.  A reply is what cpr hands back: the status code (0 when  *)
(* no HTTP response arrived), the transport's error message and the body.  *)
(* A body is the JSON of a ServerResponse, or text that is not JSON.       *)
(***************************************************************************)
NoError == "none"
NoUri == "none"

Body(bad, err, next, n) ==
    [malformed |-> bad, error |-> err, nextUri |-> next, binaryData |-> n]
NoBody == Body(TRUE, NoError, NoUri, 0)

\* Error-free responses, and responses with an error field; the latter
\* with or without a nextUri, binaryData present in both.
JsonBodies(mayContinue) ==
    { Body(FALSE, NoError, next, n) :
        next \in {NoUri} \cup (IF mayContinue THEN Uris ELSE {}),
        n \in 0..MaxPages }
    \cup { Body(FALSE, err, next, MaxPages) :
        err \in ErrorMessages, next \in {NoUri, "u1"} }

Reply(status, errmsg, body) ==
    [status_code |-> status, error |-> errmsg, text |-> body]

Replies(mayContinue) ==
    { Reply(0, ConnectText, NoBody), Reply(0, TimeoutText, NoBody),
      Reply(500, "", Body(FALSE, NoError, NoUri, 0)),
      Reply(200, "", NoBody) }
    \cup { Reply(200, "", b) : b \in JsonBodies(mayContinue) }

\* Variant: only the absence of an HTTP response is rejected.
StatusAcceptedAnyHttp(status) == status # 0

\* VELOX_CHECK_EQ(response.status_code, 200, ...) of startQuery and fetchNext.
StatusAccepted(status) == status = 200

\* The message of the failed status check.
StatusCheckError(verb, reply) ==
    VeloxRuntimeError(<<verb, "failed: ", reply.error>>)

\* Variant: the error field is looked at only once the query has completed.
throwIfFailedWhenCompleted(response) ==
    IF response.error = "none" \/ response.nextUri # "none" THEN NoExc
    ELSE VeloxRuntimeError(<<"Presto query failed: ", response.error>>)

\* ServerResponse::throwIfFailed: the exception raised, NoExc when none is.
throwIfFailed(response) ==
    IF response.error = NoError THEN NoExc
    ELSE VeloxRuntimeError(<<"Presto query failed: ", response.error>>)

\* Variant: a response that brings data ends the loop.
queryCompletedOnData(response) ==
    response.nextUri = NoUri \/ response.binaryData > 0

\* ServerResponse::queryCompleted
queryCompleted(response) == response.nextUri = NoUri

\* ServerResponse::queryResults: one batch per binaryData entry, in order.
\* k is the position of the response in the statement's exchange.
queryResults(response, k) == [j \in 1..response.binaryData |-> <<k, j>>]

\* The batches of a whole sequence of responses, in response order.
RECURSIVE AllPages(_, _)
AllPages(responses, k) ==
    IF k = 0 THEN <<>>
    ELSE AllPages(responses, k - 1) \o queryResults(responses[k], k)

(***************************************************************************)
(* One execute(plan) call.                                                 *)
(***************************************************************************)
\* std::optional of a batch sequence or of a multiset of rows.
NoRows == [has |-> FALSE, v |-> <<>>]
Rows(v) == [has |-> TRUE, v |-> v]
NoResult == [rows |-> NoRows, code |-> "none"]
NoRead == <<>>

IdleCall ==
    [pc |-> "idle",           \* idle, post, poll, write, done, thrown
     plan |-> Node("none", <<>>),
     sql |-> NullOpt,         \* result of toSql(plan)
     inputMap |-> <<>>,       \* table name -> input
     order |-> <<>>,          \* iteration order of inputMap
     idx |-> 0,               \* position of the table being materialized
     stmt |-> NoStatement,    \* statement being executed
     requests |-> <<>>,       \* HTTP requests of the current statement
     responses |-> <<>>,      \* ServerResponses parsed for the statement
     queryResults |-> <<>>,   \* batches accumulated for the statement
     returned |-> NoRows,     \* what execute(sql) returned, once it has
     status |-> -1,           \* status code of the last HTTP reply
     tableDirectoryPath |-> <<>>,
     log |-> <<>>,            \* statements posted and files written
     cause |-> "none",        \* where the exception was raised
     exc |-> NoExc,           \* the exception raised
     result |-> NoResult,     \* the pair execute(plan) returned
     read |-> NoRead,         \* what the main query read, per table
     replaced |-> {}]         \* tables whose DROP removed other data

\* exec::test::materialize: the batches as a multiset.
RECURSIVE materialize(_)
materialize(batches) ==
    IF batches = <<>> THEN EmptyBag
    ELSE SetToBag({Head(batches)}) (+) materialize(Tail(batches))

\* Variant: the test on result.first is inverted.
executeResultInverted(first, second) ==
    IF ~first.has
    THEN [rows |-> Rows(materialize(first.v)), code |-> second]
    ELSE [rows |-> NoRows, code |-> second]

\* execute(plan): wraps the pair of executeAndReturnVector.
executeResult(first, second) ==
    IF first.has
    THEN [rows |-> Rows(materialize(first.v)), code |-> second]
    ELSE [rows |-> NoRows, code |-> second]

\* Variant: every exception is downgraded.
catchRethrowsNever(e) == FALSE

\* The catch clauses of executeAndReturnVector: TRUE when the exception is
\* thrown on to the caller.
catchRethrows(e) ==
    e.type = "VeloxRuntimeError" /\ MessageFind(e, ConnectText)

\* An exception raised inside the try block.
Raise(s, e, cause) ==
    IF catchRethrows(e)
    THEN [s EXCEPT !.pc = "thrown", !.exc = e, !.cause = cause]
    ELSE [s EXCEPT !.pc = "done", !.exc = e, !.cause = cause,
                   !.result = executeResult(NoRows, "ReferenceQueryFail")]

\* Start of execute(sql): the statement is about to be posted.
Submit(s, stmt) ==
    [s EXCEPT !.pc = "post", !.stmt = stmt]

\* Variant: the loop over the tables stops one table early.
NextTableOffByOne(s) ==
    IF s.idx + 1 < Len(s.order)
    THEN LET t == s.order[s.idx + 1]
         IN  Submit([s EXCEPT !.idx = @ + 1],
                    Statement("DROP", t, 0, <<>>))
    ELSE Submit([s EXCEPT !.idx = @ + 1],
                Statement("QUERY", "", 0, s.sql.text))

\* Head of the second loop of executeAndReturnVector: the next table's
\* createTable begins, or the main query when all tables are done.
NextTable(s) ==
    IF s.idx < Len(s.order)
    THEN LET t == s.order[s.idx + 1]
         IN  Submit([s EXCEPT !.idx = @ + 1],
                    Statement("DROP", t, 0, <<>>))
    ELSE Submit([s EXCEPT !.idx = @ + 1],
                Statement("QUERY", "", 0, s.sql.text))

\* Variant: createTable returns without deleting the all-null row.
createTableNextNoDelete(op) ==
    CASE op = "DROP" -> "CREATE"
      [] op = "CREATE" -> "PATH"
      [] op = "PATH" -> "return"
      [] op = "DELETE" -> "return"

\* createTable: the statement that follows a completed one ("return" after
\* the last).
createTableNext(op) ==
    CASE op = "DROP" -> "CREATE"
      [] op = "CREATE" -> "PATH"
      [] op = "PATH" -> "DELETE"
      [] op = "DELETE" -> "return"

\* extractSingleValue: the path in the first row of the results.
extractSingleValue(results, eng, t) ==
    IF results = <<>> THEN <<>> ELSE PlaceholderPath(t)

\* execute(sql) has returned `s.queryResults'; the caller goes on.
\* old and eng are the server's tables before and after the statement.
StatementDone(s0, old, eng) ==
    LET s == [s0 EXCEPT !.returned = Rows(s0.queryResults),
                !.replaced =
                    IF /\ s0.stmt.op = "DROP"
                       /\ old[s0.stmt.table].file # NoInput
                       /\ old[s0.stmt.table].file
                            # s0.inputMap[s0.stmt.table]
                    THEN @ \cup {s0.stmt.table} ELSE @]
        t == s.stmt.table
    IN  IF s.stmt.op = "QUERY"
        THEN [s EXCEPT !.pc = "done",
                !.result = executeResult(Rows(s.queryResults), "Success"),
                !.read = [u \in DOMAIN s.inputMap |-> TableContents(eng[u])]]
        ELSE IF s.stmt.op = "PATH"
                /\ extractSingleValue(s.queryResults, eng, t) = <<>>
        THEN Raise(s, VeloxRuntimeError(<<"no single value">>), "locate")
        ELSE LET s1 == IF s.stmt.op = "PATH"
                       THEN [s EXCEPT !.tableDirectoryPath = parent_path(
                                extractSingleValue(s.queryResults, eng, t))]
                       ELSE s
                 next == createTableNext(s.stmt.op)
             IN  IF next = "return" THEN [s1 EXCEPT !.pc = "write"]
                 ELSE Submit(s1, Statement(next, t,
                        IF next = "CREATE" THEN s.inputMap[t].cols ELSE 0,
                        <<>>))

(***************************************************************************)
(* The HTTP exchange of execute(sql).                                      *)
(***************************************************************************)
Request(method, target, stmt) ==
    [method |-> method, target |-> target, body |-> stmt]

\* Variant: every GET goes to the nextUri of the first response.
fetchTargetFirst(responses) == responses[1].nextUri

\* The argument of fetchNext in the poll loop.
fetchTarget(responses) == responses[Len(responses)].nextUri

\* Where a transport or server failure comes from.
ReplyCause(reply) ==
    IF reply.status_code = 0
    THEN (IF reply.error = ConnectText THEN "connect" ELSE "timeout")
    ELSE "status"

\* TRUE when the reply ends the statement successfully.
Completes(reply) ==
    /\ StatusAccepted(reply.status_code)
    /\ ~reply.text.malformed
    /\ reply.text.error = NoError
    /\ reply.text.nextUri = NoUri

\* startQuery/fetchNext have the reply: check the status, parse the body,
\* throwIfFailed, collect the batches, and leave the loop or poll again.
AfterReply(s, reply, verb, old, eng) ==
    LET s1 == [s EXCEPT !.status = reply.status_code]
    IN  IF ~StatusAccepted(reply.status_code)
        THEN Raise(s1, StatusCheckError(verb, reply), ReplyCause(reply))
        ELSE IF reply.text.malformed
        THEN Raise(s1, OtherException("json parse error"), "malformed")
        ELSE LET s2 == [s1 EXCEPT !.responses = Append(@, reply.text)]
                 e == throwIfFailed(reply.text)
             IN  IF e # NoExc THEN Raise(s2, e, "engine")
                 ELSE LET s3 == [s2 EXCEPT !.queryResults =
                                    @ \o queryResults(reply.text,
                                                      Len(s2.responses))]
                      IN  IF queryCompleted(reply.text)
                          THEN StatementDone(s3, old, eng)
                          ELSE [s3 EXCEPT !.pc = "poll"]

\* The replies the server can give to the next request of the statement.
PossibleReplies(s, eng) ==
    { reply \in Replies(Len(s.requests) <= MaxPolls) :
        Completes(reply) => EngineAccepts(s.stmt, eng, DOMAIN s.inputMap) }

EngineAfter(s, reply, eng) ==
    IF Completes(reply) THEN EngineApply(s.stmt, eng) ELSE eng

(***************************************************************************)
(* Actions.                                                                *)
(***************************************************************************)
\* Variant: a missing SQL text is not told from a present one.
hasValueAlways(sql) == sql.tag # "throw"

\* if (std::optional<std::string> sql = toSql(plan))
hasValue(sql) == sql.tag = "sql"

Orders(S) ==
    { o \in [1..Cardinality(S) -> S] :
        \A i, j \in 1..Cardinality(S) : i # j => o[i] # o[j] }

\* executeAndReturnVector up to its first HTTP request.
Begin(s, p, order, eng) ==
    LET sql == toSql(p)
        s1 == [s EXCEPT !.plan = p, !.sql = sql]
    IN  IF sql.tag = "throw"
        THEN [s1 EXCEPT !.pc = "thrown", !.exc = sql.exc, !.cause = "compile"]
        ELSE IF hasValue(sql)
        THEN NextTable([s1 EXCEPT
                !.inputMap = replaceEmptyInputs(getAllTables(p)),
                !.order = order])
        ELSE [s1 EXCEPT !.pc = "done",
                !.result = executeResult(NoRows, "ReferenceQueryUnsupported")]

Execute(c) ==
    /\ calls[c].pc = "idle"
    /\ \E p \in PlanSet :
         \E order \in Orders(DOMAIN getAllTables(p)) :
            calls' = [calls EXCEPT ![c] = Begin(calls[c], p, order, engine)]
    /\ UNCHANGED <<engine, probe>>

\* startQuery: POST the statement.
Post(c) ==
    /\ calls[c].pc = "post"
    /\ LET s == [calls[c] EXCEPT
                   !.requests = <<Request("POST", "/v1/statement", calls[c].stmt)>>,
                   !.responses = <<>>,
                   !.queryResults = <<>>,
                   !.returned = NoRows,
                   !.log = Append(@, calls[c].stmt)]
       IN  \E reply \in PossibleReplies(s, engine) :
              /\ engine' = EngineAfter(s, reply, engine)
              /\ calls' = [calls EXCEPT ![c] =
                            AfterReply(s, reply, "POST", engine, engine')]
    /\ UNCHANGED probe

\* fetchNext: GET the nextUri of the response at hand.
Get(c) ==
    /\ calls[c].pc = "poll"
    /\ LET s == [calls[c] EXCEPT
                   !.requests = Append(@,
                       Request("GET", fetchTarget(calls[c].responses),
                               NoStatement))]
       IN  \E reply \in PossibleReplies(s, engine) :
              /\ engine' = EngineAfter(s, reply, engine)
              /\ calls' = [calls EXCEPT ![c] =
                            AfterReply(s, reply, "GET", engine, engine')]
    /\ UNCHANGED probe

\* The path writeToFile is given for a table.
dataFilePath(tableDirectoryPath, t) ==
    Tail(tableDirectoryPath \o <<t \o ".dwrf">>)

WriteExceptions ==
    { VeloxRuntimeError(<<"write failed">>), OtherException("io error") }

\* writeToFile, then the head of the loop.
WriteToFile(c) ==
    /\ calls[c].pc = "write"
    /\ LET s == calls[c]
           t == s.order[s.idx]
           path == dataFilePath(s.tableDirectoryPath, t)
       IN  \/ /\ engine' = [engine EXCEPT ![path[1]].file = s.inputMap[t]]
              /\ calls' = [calls EXCEPT ![c] =
                    NextTable([s EXCEPT !.log = Append(@,
                        Statement("WRITE", path[1], s.inputMap[t].cols,
                                  s.inputMap[t].data))])]
           \/ /\ \E e \in WriteExceptions :
                    calls' = [calls EXCEPT ![c] = Raise(s, e, "write")]
              /\ UNCHANGED engine
    /\ UNCHANGED probe

\* The harness takes the outcome; the runner is ready for the next plan.
Return(c) ==
    /\ calls[c].pc \in {"done", "thrown"}
    /\ calls' = [calls EXCEPT ![c] = IdleCall]
    /\ UNCHANGED <<engine, probe>>

Init ==
    /\ calls = [c \in Callers |-> IdleCall]
    /\ engine = NoTables
    /\ probe = NoProbe

Next ==
    \E c \in Callers :
        \/ Execute(c)
        \/ Post(c)
        \/ Get(c)
        \/ WriteToFile(c)
        \/ Return(c)

Spec == Init /\ [][Next]_vars

(***************************************************************************)
(* The compiler and the predicates called on their own.  The argument is   *)
(* drawn when the call is made; the one step of the call computes the      *)
(* answer.                                                                 *)
(***************************************************************************)
\* Largest number of projections of a Project node.
MaxProjections == 2
\* Largest number of window functions of a Window node.
MaxFunctions == 2

SeqsUpTo(S, n) == UNION { [1..k -> S] : k \in 0..n }

\* Sources: every combination of a supported or unsupported output type
\* with a source that compiles, is unsupported, or makes toSql throw.
SourcePlans ==
    { Values("t1", 1, "d1", TRUE), Values("t1", 2, "d1", FALSE),
      Node("RowNumber", <<Values("t1", 1, "d1", FALSE)>>),
      [Node("RowNumber", <<Values("t1", 1, "d1", FALSE)>>)
          EXCEPT !.dwrf = FALSE],
      Node("Limit", <<Values("t1", 1, "d1", TRUE)>>),
      [Node("Limit", <<Values("t1", 1, "d1", TRUE)>>) EXCEPT !.dwrf = FALSE] }

\* toSql(ProjectNode) does not look at its source's type.
ProjectPlans ==
    LET ProjectionExprs ==
            { Expr(k, INTEGER) : k \in ExprKinds \ {"Constant"} }
            \cup { Expr("Constant", t) : t \in Types }
    IN  { [Node("Project", <<src>>) EXCEPT
              !.projections = ps, !.names = SubSeq(ColumnNames, 1, Len(ps))] :
            ps \in SeqsUpTo(ProjectionExprs, MaxProjections),
            src \in { p \in SourcePlans : p.dwrf } }

KeyLists == { <<>>, <<"c0">> }
SortLists == { <<>>, <<[name |-> "c0", order |-> "ASC NULLS LAST"]>> }

\* Window nodes, with the context holding no frames for the node, or the
\* frames of its first k functions.
WindowPlans ==
    LET WindowFunctions ==
            { [name |-> "rank", ignoreNulls |-> b] : b \in BOOLEAN }
        FrameTexts == <<"RANGE F1", "ROWS F2", "RANGE F3", "ROWS F4">>
        FrameEntries ==
            {NoFrames}
            \cup { Frames(SubSeq(FrameTexts, 1, k)) : k \in 0..MaxFunctions }
    IN  { [Node("Window", <<src>>) EXCEPT
              !.functions = fs, !.frames = fr, !.partitionKeys = pk,
              !.sortingKeys = sk] :
            fs \in SeqsUpTo(WindowFunctions, MaxFunctions),
            fr \in FrameEntries,
            pk \in KeyLists, sk \in SortLists, src \in SourcePlans }

Steps == {"single", "partial", "intermediate", "final"}
\* Largest number of aggregates of an Aggregation node.
MaxAggregates == 2
\* Aggregation nodes: each aggregate a call, whether it is distinct and its
\* mask column, if it has one; the source a table or a query of its own.
AggregationPlans ==
    LET AggregateNames == <<"a0", "a1", "a2", "a3">>
        Masks == { [has |-> FALSE, v |-> ""], [has |-> TRUE, v |-> "m0"] }
        Aggregates ==
            { [call |-> "sum", distinct |-> d, mask |-> m,
               sortingKeys |-> <<>>] : d \in BOOLEAN, m \in Masks }
        GroupingKeyLists == { <<>>, <<"c0">>, <<"c0", "c1">> }
        AggregationSources ==
            SourcePlans
            \cup { [Node("Project", <<Values("t1", 1, "d1", TRUE)>>) EXCEPT
                       !.projections = <<Expr("FieldAccess", INTEGER)>>,
                       !.names = <<"c0">>] }
    IN  { [Node("Aggregation", <<src>>) EXCEPT
              !.step = st, !.groupingKeys = gk, !.aggregates = as,
              !.aggregateNames = SubSeq(AggregateNames, 1, Len(as))] :
            st \in Steps, src \in AggregationSources,
            gk \in GroupingKeyLists,
            as \in SeqsUpTo(Aggregates, MaxAggregates) }

RankPlans(kind) ==
    LET RankNames == {"row_number", "rn"}
        Limits == {"1", "3"}
    IN  { [Node(kind, <<src>>) EXCEPT
              !.generateRowNumber = g,
              !.names = src.names \o (IF g THEN <<rank>> ELSE <<>>),
              !.partitionKeys = pk,
              !.sortingKeys = IF kind = "TopNRowNumber" THEN sk ELSE <<>>,
              !.limit = IF kind = "TopNRowNumber" THEN l ELSE "0"] :
            g \in BOOLEAN, rank \in RankNames, pk \in KeyLists,
            sk \in SortLists, l \in Limits, src \in SourcePlans }

\* TableWrite nodes.  The insert-table handle has two input columns, each
\* a partition key or not, and has or lacks a bucket property, with or
\* without sort columns.
TableWritePlans ==
    LET SortColumn(name, ascending) ==
            [sortColumn |-> name, isAscending |-> ascending]
        SortColumnLists ==
            { <<>>, <<SortColumn("c1", TRUE)>>, <<SortColumn("c1", FALSE)>>,
              <<SortColumn("c0", TRUE), SortColumn("c1", FALSE)>> }
        BucketProperties ==
            {NoBucketProperty}
            \cup { [has |-> TRUE, bucketCount |-> "2",
                    bucketedBy |-> <<"c0">>, sortedBy |-> sorted] :
                     sorted \in SortColumnLists }
        InsertTableHandles ==
            { InsertTableHandle(<<[name |-> "c0", isPartitionKey |-> p0],
                                  [name |-> "c1", isPartitionKey |-> p1]>>,
                                bucket) :
                p0 \in BOOLEAN, p1 \in BOOLEAN, bucket \in BucketProperties }
    IN  { [Node("TableWrite", <<src>>) EXCEPT !.handle = h] :
            h \in InsertTableHandles, src \in SourcePlans }

OtherPlans ==
    SourcePlans
    \cup { Node(k, <<src>>) : k \in {"TableWrite", "Limit", "Filter"},
                             src \in SourcePlans }
    \cup { Node(k, <<l, r>>) : k \in JoinKinds, l \in SourcePlans,
                              r \in SourcePlans }

\* The plans toSql is called on; the last are three nodes deep, the
\* unsupported part two levels down.
CompilePlans ==
    ProjectPlans \cup WindowPlans \cup AggregationPlans
    \cup RankPlans("RowNumber") \cup RankPlans("TopNRowNumber") \cup OtherPlans
    \cup TableWritePlans
    \cup { Node(k, <<Node("Project", <<src>>)>>) :
             k \in SingleSourceKinds, src \in SourcePlans }

\* toSql(plan) called on its own.
CompilePlan ==
    /\ probe.fn = "toSql"
    /\ ~probe.done
    /\ probe' = [probe EXCEPT !.done = TRUE, !.sql = toSql(probe.node)]
    /\ UNCHANGED <<calls, engine>>

Exprs == { Expr(k, t) : k \in ExprKinds, t \in Types }

\* isConstantExprSupported(expr) called on its own.
CheckConstant ==
    /\ probe.fn = "isConstantExprSupported"
    /\ ~probe.done
    /\ probe' = [probe EXCEPT !.done = TRUE,
                              !.ok = isConstantExprSupported(probe.expr)]
    /\ UNCHANGED <<calls, engine>>

\* Deepest nesting of a type signature's parameters.
MaxDepth == 1
\* Largest number of arguments of a signature.
MaxArgs == 1

RECURSIVE TypeSignatures(_)
TypeSignatures(depth) ==
    LET TypeNames ==
            { Lower(text) :
                text \in {"bigint", "bingtile", "interval year to month",
                          "hugeint", "hyperloglog", "tdigest", "json",
                          "ipaddress", "ipprefix", "uuid"} }
            \cup { Name("json", "UPPER"), Name("hugeint", "UPPER") }
    IN  { TypeSignature(n, <<>>) : n \in TypeNames }
        \cup (IF depth = 0 THEN {}
              ELSE { TypeSignature(Lower("array"), <<t>>) :
                        t \in TypeSignatures(depth - 1) })

Signatures ==
    { FunctionSignature(args, ret) :
        args \in SeqsUpTo(TypeSignatures(MaxDepth), MaxArgs),
        ret \in TypeSignatures(MaxDepth) }

\* isSupported(signature) called on its own.
CheckSignature ==
    /\ probe.fn = "isSupported"
    /\ ~probe.done
    /\ probe' = [probe EXCEPT !.done = TRUE,
                              !.ok = isSupported(probe.signature)]
    /\ UNCHANGED <<calls, engine>>

\* Largest number of binaryData entries and of columns of a response.
MaxEntries == 2
MaxColumns == 2
\* Responses: with or without binaryData, its entries base64 texts or not;
\* with or without columns, their type texts known to parseType or not.
Responses ==
    LET Columns ==
            { [name |-> n, type |-> t] :
                n \in {"a", "b"}, t \in TypeTexts \cup {"geometry"} }
    IN  { Json(d, c) :
            d \in {NoField}
                  \cup { Field(v) :
                           v \in SeqsUpTo(Encoded \cup {"!"}, MaxEntries) },
            c \in {NoField}
                  \cup { Field(v) : v \in SeqsUpTo(Columns, MaxColumns) } }

\* ServerResponse(json).queryResults(pool) called on its own.
DecodeResponse ==
    /\ probe.fn = "queryResults"
    /\ ~probe.done
    /\ probe' = [probe EXCEPT
                    !.done = TRUE,
                    !.vectors = ServerResponse_queryResults(probe.response)]
    /\ UNCHANGED <<calls, engine>>

PureInit ==
    /\ calls = [c \in Callers |-> IdleCall]
    /\ engine = NoTables
    /\ \/ \E p \in CompilePlans :
              probe = Probe("toSql", p, NoExpr, NoSignature)
       \/ \E e \in Exprs :
              probe = Probe("isConstantExprSupported", NoPlan, e, NoSignature)
       \/ \E sig \in Signatures :
              probe = Probe("isSupported", NoPlan, NoExpr, sig)
       \/ \E r \in Responses :
              probe = [Probe("queryResults", NoPlan, NoExpr, NoSignature)
                         EXCEPT !.response = r]

PureNext ==
    \/ CompilePlan
    \/ CheckConstant
    \/ CheckSignature
    \/ DecodeResponse

PureSpec == PureInit /\ [][PureNext]_vars

(***************************************************************************)
(* Two execute(plan) calls at once on one runner, against a server that    *)
(* answers every statement at once and reports an error exactly when the   *)
(* statement cannot be carried out.  The runner holds no lock: the steps   *)
(* of the two calls interleave freely.                                     *)
(***************************************************************************)
ConcCallers == {1, 2}

ConcPlans ==
    { Values("t1", 1, "d1", TRUE), Values("t1", 1, "d2", TRUE),
      Values("t2", 1, "d1", TRUE),
      Node("TableWrite", <<Values("t1", 1, "d1", TRUE)>>),
      Node("TableWrite", <<Values("t2", 1, "d2", TRUE)>>) }

\* The reply the step of caller c has received is the truthful one.
TruthfulReply(c) ==
    /\ calls'[c].status = 200
    /\ calls'[c].cause \in {"none", "engine"}
    /\ Len(calls'[c].responses) = 1
    /\ calls'[c].responses[1].nextUri = NoUri
    /\ calls'[c].responses[1].binaryData = MaxPages
    /\ calls'[c].responses[1].error =
          IF EngineAccepts(calls[c].stmt, engine, DOMAIN calls[c].inputMap)
          THEN NoError ELSE TableMissingText

ConcExecute(c) ==
    /\ calls[c].pc = "idle"
    /\ \E p \in ConcPlans :
         \E order \in Orders(DOMAIN getAllTables(p)) :
            calls' = [calls EXCEPT ![c] = Begin(calls[c], p, order, engine)]
    /\ UNCHANGED <<engine, probe>>

ConcPost(c) == Post(c) /\ TruthfulReply(c)

ConcWrite(c) == WriteToFile(c) /\ calls'[c].cause = "none"

ConcInit ==
    /\ calls = [c \in ConcCallers |-> IdleCall]
    /\ engine = NoTables
    /\ probe = NoProbe

ConcNext ==
    \E c \in ConcCallers :
        \/ ConcExecute(c)
        \/ ConcPost(c)
        \/ ConcWrite(c)

ConcSpec == ConcInit /\ [][ConcNext]_vars

(***************************************************************************)
(* execute(sql) of one statement: the plan reads existing tables, so the   *)
(* call posts its query at once and polls.  Every HTTP request runs under  *)
(* cpr::Timeout, so each of them comes back, with a reply or timed out:    *)
(* the steps Post and Get are weakly fair.                                 *)
(***************************************************************************)
TableScan(t) == [Node("TableScan", <<>>) EXCEPT !.table = t]

PollExecute(c) ==
    /\ calls[c].pc = "idle"
    /\ \E p \in { TableScan("t1"), TableScan("t2"),
                  Node("Project", <<TableScan("t1")>>) } :
         calls' = [calls EXCEPT ![c] = Begin(calls[c], p, <<>>, engine)]
    /\ UNCHANGED <<engine, probe>>

PollInit ==
    /\ calls = [c \in Callers |-> IdleCall]
    /\ engine = NoTables
    /\ probe = NoProbe

PollNext ==
    \E c \in Callers :
        \/ PollExecute(c)
        \/ Post(c)
        \/ Get(c)
        \/ Return(c)

PollSpec ==
    /\ PollInit
    /\ [][PollNext]_vars
    /\ \A c \in Callers : WF_vars(Post(c)) /\ WF_vars(Get(c))

(***************************************************************************)
(* Properties.                                                             *)
(***************************************************************************)
Last(seq) == seq[Len(seq)]
IsPrefix(a, b) == Len(a) <= Len(b) /\ SubSeq(b, 1, Len(a)) = a
Unsupported == [rows |-> NoRows, code |-> "ReferenceQueryUnsupported"]
Failed == [rows |-> NoRows, code |-> "ReferenceQueryFail"]
MaterializationOps == {"DROP", "CREATE", "PATH", "DELETE"}

\* C1: when toSql(plan) yields no SQL, the call ends at once with
\* (none, ReferenceQueryUnsupported): it has sent no HTTP request, posted no
\* statement, written no file, and the step leaves the server's tables and
\* files as they were.
C1_StateOk ==
    \A c \in DOMAIN calls :
        (calls[c].pc # "idle" /\ calls[c].sql.tag = "none") =>
            /\ calls[c].pc = "done"
            /\ calls[c].result = Unsupported
            /\ calls[c].requests = <<>>
            /\ calls[c].responses = <<>>
            /\ calls[c].log = <<>>

C1_StepOk ==
    \A c \in DOMAIN calls :
        (calls[c].pc = "idle" /\ calls'[c].pc # "idle"
            /\ calls'[c].sql.tag = "none") => engine' = engine

C1_UnsupportedNoContact == []C1_StateOk /\ [][C1_StepOk]_vars

C1_Witness ==
    \E c \in DOMAIN calls :
        /\ calls[c].pc = "done"
        /\ calls[c].sql.tag = "none"
        /\ calls[c].result = Unsupported
        /\ \E t \in Tables : engine[t].exists /\ engine[t].file # NoInput

\* C2: the pair execute(plan) returns has rows exactly when its code is
\* Success; the code is one of the three outcomes; no pair exists before the
\* call returns.
C2_ResultConsistent ==
    \A c \in DOMAIN calls :
        /\ calls[c].pc = "done" =>
            /\ calls[c].result.code \in
                {"Success", "ReferenceQueryUnsupported", "ReferenceQueryFail"}
            /\ calls[c].result.rows.has <=> calls[c].result.code = "Success"
        /\ calls[c].pc # "done" => calls[c].result = NoResult

C2_Witness ==
    \E c \in DOMAIN calls :
        /\ calls[c].pc = "done"
        /\ calls[c].result.code = "Success"
        /\ calls[c].result.rows.has
        /\ calls[c].result.rows.v # EmptyBag

\* C3: after a successful compile every failure that does not come from a
\* failed connection (an error reported by the server, a status other than
\* 200, a timeout, a malformed body, a failed write) ends the call with
\* (none, ReferenceQueryFail) and is not thrown on.
C3_NonConnectFailuresCaught ==
    \A c \in DOMAIN calls :
        (hasValue(calls[c].sql)
            /\ calls[c].cause \notin {"none", "compile", "connect"}) =>
            calls[c].pc = "done" /\ calls[c].result = Failed

C5_PollLoop ==
    \A c \in DOMAIN calls :
        calls[c].returned.has =>
            LET rq == calls[c].requests
                rs == calls[c].responses
                n == Len(rs)
            IN  /\ n >= 1
                /\ Len(rq) = n
                /\ rq[1].method = "POST"
                /\ rq[1].target = "/v1/statement"
                /\ \A i \in 2..n :
                      /\ rq[i].method = "GET"
                      /\ rq[i].target = rs[i - 1].nextUri
                /\ \A i \in 1..(n - 1) : rs[i].nextUri # NoUri
                /\ rs[n].nextUri = NoUri
                /\ \A i \in 1..n : rs[i].error = NoError
                /\ calls[c].returned.v = AllPages(rs, n)

C5_Witness ==
    \E c \in DOMAIN calls :
        /\ calls[c].returned.has
        /\ Len(calls[c].responses) = 3
        /\ calls[c].responses[1].nextUri # calls[c].responses[2].nextUri
        /\ calls[c].responses[1].binaryData > 0
        /\ calls[c].responses[3].binaryData > 0
        /\ Len(calls[c].returned.v) >= 2

\* C6: a response with an error field ends execute(sql) with an exception at
\* that response: no GET follows it, none of its pages is decoded, and the
\* batches of the earlier responses are not returned.
C6_ErrorStopsPolling ==
    \A c \in DOMAIN calls :
        LET rs == calls[c].responses
        IN  (rs # <<>> /\ Last(rs).error # NoError) =>
                /\ calls[c].pc \in {"done", "thrown"}
                /\ calls[c].cause = "engine"
                /\ Len(calls[c].requests) = Len(rs)
                /\ calls[c].queryResults = AllPages(rs, Len(rs) - 1)
                /\ ~calls[c].returned.has
                /\ ~calls[c].result.rows.has

C6_Witness ==
    \E c \in DOMAIN calls :
        LET rs == calls[c].responses
        IN  /\ Len(rs) >= 2
            /\ Last(rs).error # NoError
            /\ Last(rs).nextUri # NoUri
            /\ Last(rs).binaryData > 0
            /\ calls[c].queryResults # <<>>
            /\ calls[c].pc = "done"

\* C7: an HTTP reply that is a timeout or has a status other than 200 ends
\* the call at that request: its body is not parsed, nothing is sent after
\* it, and unless it is a failed connection execute(plan) returns
\* (none, ReferenceQueryFail).
C7_BadStatusFails ==
    \A c \in DOMAIN calls :
        calls[c].status \notin {-1, 200} =>
            /\ calls[c].pc \in {"done", "thrown"}
            /\ Len(calls[c].responses) = Len(calls[c].requests) - 1
            /\ ~calls[c].returned.has
            /\ calls[c].cause # "connect" =>
                    calls[c].pc = "done" /\ calls[c].result = Failed

C7_Witness ==
    \E c \in DOMAIN calls :
        /\ calls[c].status = 500
        /\ calls[c].cause = "status"
        /\ calls[c].stmt.op = "QUERY"
        /\ Last(calls[c].requests).method = "GET"
        /\ calls[c].result = Failed

\* C8: a table the call has materialized holds exactly the call's input
\* for it, whatever an earlier call put there, and not the placeholder row;
\* the main query reads just that.
MaterializedTables(s) ==
    { s.order[i] : i \in { j \in 1..Len(s.order) : j < s.idx } }

C8_MaterializeReplaces ==
    \A c \in DOMAIN calls :
        /\ \A t \in MaterializedTables(calls[c]) :
              TableContents(engine[t]) = {calls[c].inputMap[t]}
        /\ calls[c].read # NoRead =>
              \A t \in DOMAIN calls[c].inputMap :
                  calls[c].read[t] = {calls[c].inputMap[t]}

C8_Witness ==
    \E c \in DOMAIN calls :
        /\ calls[c].pc = "done"
        /\ calls[c].result.code = "Success"
        /\ calls[c].replaced # {}
        /\ calls[c].replaced \subseteq MaterializedTables(calls[c])
        /\ calls[c].read # NoRead

\* C9: what a call posts and writes is a prefix of: for each table of the
\* plan, once, DROP, CREATE, SELECT "$path", DELETE, write of the file; then
\* the compiled SQL.  So the SQL is posted only after every table is
\* materialized, and not at all when a step before it failed.
TableLog(s, t) ==
    << Statement("DROP", t, 0, <<>>),
       Statement("CREATE", t, s.inputMap[t].cols, <<>>),
       Statement("PATH", t, 0, <<>>),
       Statement("DELETE", t, 0, <<>>),
       Statement("WRITE", t, s.inputMap[t].cols, s.inputMap[t].data) >>

RECURSIVE TablesLog(_, _)
TablesLog(s, k) ==
    IF k = 0 THEN <<>> ELSE TablesLog(s, k - 1) \o TableLog(s, s.order[k])

ExpectedLog(s) ==
    TablesLog(s, Len(s.order)) \o <<Statement("QUERY", "", 0, s.sql.text)>>

C9_QueryAfterAllTables ==
    \A c \in DOMAIN calls :
        hasValue(calls[c].sql) =>
            /\ { calls[c].order[i] : i \in 1..Len(calls[c].order) }
                  = DOMAIN getAllTables(calls[c].plan)
            /\ Len(calls[c].order)
                  = Cardinality(DOMAIN getAllTables(calls[c].plan))
            /\ IsPrefix(calls[c].log, ExpectedLog(calls[c]))

C9_Witness ==
    \E c \in DOMAIN calls :
        /\ calls[c].pc = "done"
        /\ calls[c].result.code = "Success"
        /\ Len(calls[c].order) = 2
        /\ calls[c].log = ExpectedLog(calls[c])

\* C10: a table whose input has no column is created with one column and
\* its file holds the one-column all-null rows; a table whose input has
\* columns is created with those columns and its file holds the input.
C10_EmptyInputReplaced ==
    \A c \in DOMAIN calls :
        \A i \in 1..Len(calls[c].log) :
            LET e == calls[c].log[i]
                given == getAllTables(calls[c].plan)[e.table]
            IN  /\ e.op = "CREATE" =>
                      e.cols = (IF given.cols = 0 THEN 1 ELSE given.cols)
                /\ e.op = "WRITE" =>
                      /\ e.cols = (IF given.cols = 0 THEN 1 ELSE given.cols)
                      /\ e.text = (IF given.cols = 0
                                   THEN <<"nulls">> \o given.data
                                   ELSE given.data)
                      /\ engine[e.table].exists => engine[e.table].cols = e.cols

C10_Witness ==
    \E c \in DOMAIN calls :
        \E i \in 1..Len(calls[c].log) :
            /\ calls[c].log[i].op = "WRITE"
            /\ getAllTables(calls[c].plan)[calls[c].log[i].table].cols = 0
            /\ engine[calls[c].log[i].table].cols = 1
            /\ engine[calls[c].log[i].table].file.data[1] = "nulls"

(***************************************************************************)
(* C11: a plan whose node is of none of the ten kinds the dispatch knows   *)
(* makes toSql raise "not implemented", and execute(plan) lets the error   *)
(* out: the call ends by the exception, without a result code and without  *)
(* any request sent.                                                       *)
(***************************************************************************)
DispatchedKinds == SingleSourceKinds \cup JoinKinds \cup {"Values", "TableScan"}

C11_UnmatchedKindPropagates ==
    \A c \in DOMAIN calls :
        (calls[c].pc # "idle" /\ calls[c].plan.kind \notin DispatchedKinds)
        => /\ toSql(calls[c].plan) = Thrown(NotYetImplemented)
           /\ calls[c].pc = "thrown"
           /\ calls[c].exc = NotYetImplemented
           /\ calls[c].cause = "compile"
           /\ calls[c].result = NoResult
           /\ calls[c].requests = <<>>

C11_Witness ==
    \E c \in DOMAIN calls :
        /\ calls[c].pc = "thrown"
        /\ calls[c].plan.kind = "Limit"
        /\ calls[c].exc = NotYetImplemented

(***************************************************************************)
(* C12 as stated: a plan with a projection of a class other than           *)
(* FieldAccess, Call, Cast, Concat and Constant compiles to none.          *)
(***************************************************************************)
KnownExprKinds == {"FieldAccess", "Call", "Cast", "Concat", "Constant"}

hasUnknownProjection(node) ==
    \E i \in 1..Len(node.projections) :
        node.projections[i].kind \notin KnownExprKinds

RECURSIVE usesUnknownExpr(_)
usesUnknownExpr(node) ==
    \/ node.kind = "Project" /\ hasUnknownProjection(node)
    \/ \E i \in 1..Len(node.sources) : usesUnknownExpr(node.sources[i])

Compiled == probe.fn = "toSql" /\ probe.done

C12_UnknownExprIsNone ==
    (Compiled /\ usesUnknownExpr(probe.node)) => probe.sql = NullOpt

(***************************************************************************)
(* C12, amended: a Project node with a projection of another class makes   *)
(* toSql raise "not implemented" when the node's source compiles to SQL;   *)
(* when the source does not, the node's result is the source's.            *)
(***************************************************************************)
C12_UnknownExprThrows ==
    (Compiled /\ probe.node.kind = "Project"
        /\ hasUnknownProjection(probe.node))
    => LET source == toSql(probe.node.sources[1])
       IN  probe.sql = IF source.tag = "sql" THEN Thrown(NotYetImplemented)
                       ELSE source

C12_Witness ==
    /\ Compiled
    /\ probe.node.kind = "Project"
    /\ hasUnknownProjection(probe.node)
    /\ toSql(probe.node.sources[1]).tag = "sql"
    /\ probe.sql = Thrown(NotYetImplemented)

(***************************************************************************)
(* C13 as stated: a Project node with a Constant projection of a           *)
(* non-primitive, timestamp, JSON, IP-address, IP-prefix or UUID type      *)
(* compiles to none.                                                       *)
(***************************************************************************)
RejectedConstant(expr) ==
    /\ expr.kind = "Constant"
    /\ \/ ~isPrimitiveType(expr.type)
       \/ expr.type.tag \in {"timestamp", "json", "ipaddress", "ipprefix",
                              "uuid"}

hasRejectedConstant(node) ==
    /\ node.kind = "Project"
    /\ \E i \in 1..Len(node.projections) :
            RejectedConstant(node.projections[i])

C13_RejectedConstantIsNone ==
    (Compiled /\ hasRejectedConstant(probe.node)) => probe.sql = NullOpt

(***************************************************************************)
(* C13, amended: such a constant is rejected by isConstantExprSupported,   *)
(* not by the compiler: a Project node with such a projection compiles to  *)
(* none exactly when its source does.                                      *)
(***************************************************************************)
C13_ConstantRejectedByPredicateOnly ==
    (Compiled /\ hasRejectedConstant(probe.node))
    => /\ \A i \in 1..Len(probe.node.projections) :
              RejectedConstant(probe.node.projections[i])
              => ~isConstantExprSupported(probe.node.projections[i])
       /\ probe.sql = NullOpt <=> toSql(probe.node.sources[1]) = NullOpt

C13_Witness ==
    /\ Compiled
    /\ hasRejectedConstant(probe.node)
    /\ toSql(probe.node.sources[1]).tag = "sql"
    /\ probe.sql.tag = "sql"
    /\ \E i \in 1..Len(probe.sql.text) : probe.sql.text[i] = "literal"

(***************************************************************************)
(* C14: isConstantExprSupported answers false for a constant of timestamp, *)
(* JSON, IP-address, IP-prefix, UUID or any non-primitive type, true for a *)
(* constant of INTEGER, VARCHAR or DOUBLE type, and true for every         *)
(* expression that is not a constant, whatever its type.                   *)
(***************************************************************************)
ConstantChecked == probe.fn = "isConstantExprSupported" /\ probe.done

C14_ConstantPredicate ==
    ConstantChecked
    => /\ RejectedConstant(probe.expr) => ~probe.ok
       /\ (probe.expr.kind = "Constant"
            /\ probe.expr.type.name \in {"INTEGER", "VARCHAR", "DOUBLE"})
          => probe.ok
       /\ probe.expr.kind # "Constant" => probe.ok

C14_Witness ==
    /\ ConstantChecked
    /\ probe.expr.kind = "Constant"
    /\ probe.expr.type.name = "JSON"
    /\ ~probe.ok

(***************************************************************************)
(* C15 as stated: isSupported answers false whenever an argument type or   *)
(* the return type names hugeint, hyperloglog, tdigest, interval year to   *)
(* month, json, ipaddress, ipprefix or uuid, at any depth and in any       *)
(* letter case.                                                            *)
(***************************************************************************)
RECURSIVE NamesIn(_)
NamesIn(type) ==
    {type.baseName.text}
    \cup UNION { NamesIn(type.parameters[i]) : i \in 1..Len(type.parameters) }

ArgumentNames(signature) ==
    UNION { NamesIn(signature.argumentTypes[i]) :
              i \in 1..Len(signature.argumentTypes) }

ReturnNames(signature) == NamesIn(signature.returnType)

EitherSideNames ==
    {"hugeint", "hyperloglog", "tdigest", "interval year to month"}
ArgumentSideNames == {"json", "ipaddress", "ipprefix", "uuid"}

SignatureChecked == probe.fn = "isSupported" /\ probe.done

C15_DisallowedAnywhere ==
    (SignatureChecked
        /\ (ArgumentNames(probe.signature) \cup ReturnNames(probe.signature))
            \cap (EitherSideNames \cup ArgumentSideNames) # {})
    => ~probe.ok

(***************************************************************************)
(* C15, amended: isSupported answers false exactly when an argument type   *)
(* or the return type names bingtile, hugeint, hyperloglog, tdigest or     *)
(* interval year to month, or an argument type names json, ipaddress,      *)
(* ipprefix or uuid, at any depth and in any letter case; the last four    *)
(* in the return type alone do not make it answer false.                   *)
(***************************************************************************)
C15_DisallowedByPosition ==
    SignatureChecked
    => (probe.ok <=>
          /\ (ArgumentNames(probe.signature) \cup ReturnNames(probe.signature))
              \cap (EitherSideNames \cup {"bingtile"}) = {}
          /\ ArgumentNames(probe.signature) \cap ArgumentSideNames = {})

C15_Witness ==
    /\ SignatureChecked
    /\ probe.ok
    /\ probe.signature.returnType.baseName = Lower("array")
    /\ ReturnNames(probe.signature) = {"array", "json"}
    /\ probe.signature.returnType.parameters[1].baseName.casing = "UPPER"
    /\ Len(probe.signature.argumentTypes) = 1

(***************************************************************************)
(* C16: compiling an Aggregation node whose step is not single raises the  *)
(* failure of the precondition check, whatever its source is: also when    *)
(* the source's type is not supported, when the source is unsupported and  *)
(* when compiling the source would throw.                                  *)
(***************************************************************************)
C16_StepChecked ==
    (Compiled /\ probe.node.kind = "Aggregation"
        /\ probe.node.step # "single")
    => probe.sql = Thrown(VeloxRuntimeError(<<"step == kSingle">>))

C16_Witness ==
    /\ Compiled
    /\ probe.node.kind = "Aggregation"
    /\ probe.node.step = "partial"
    /\ ~probe.node.sources[1].dwrf
    /\ toSql(probe.node.sources[1]) = NullOpt
    /\ probe.sql.tag = "throw"

(***************************************************************************)
(* The text a Window node compiles to: one OVER clause per window          *)
(* function, the k-th closed by the k-th frame of the context's entry, and *)
(* IGNORE NULLS between the call and OVER exactly for the functions that   *)
(* ask for it.                                                             *)
(***************************************************************************)
FromPosition(text) ==
    CHOOSE p \in 1..Len(text) :
        text[p] = "FROM" /\ \A q \in 1..(p - 1) : text[q] # "FROM"

OverPositions(text) ==
    { p \in 1..FromPosition(text) : text[p] = "OVER (" }

OverPosition(text, k) ==
    CHOOSE p \in OverPositions(text) :
        Cardinality({ q \in OverPositions(text) : q < p }) = k - 1

ClosePosition(text, k) ==
    CHOOSE p \in (OverPosition(text, k) + 1)..Len(text) :
        /\ text[p] = ")"
        /\ \A q \in (OverPosition(text, k) + 1)..(p - 1) : text[q] # ")"

WindowTextOk(node, text) ==
    /\ Cardinality(OverPositions(text)) = Len(node.functions)
    /\ \A k \in 1..Len(node.functions) :
          LET over == OverPosition(text, k)
          IN  /\ text[ClosePosition(text, k) - 1] = node.frames.v[k]
              /\ IF node.functions[k].ignoreNulls
                 THEN text[over - 1] = "IGNORE NULLS" /\ text[over - 2] = ")"
                 ELSE text[over - 1] = ")"
    /\ Cardinality({ p \in 1..Len(text) : text[p] = "IGNORE NULLS" })
         = Cardinality({ k \in 1..Len(node.functions) :
                            node.functions[k].ignoreNulls })

lacksFrame(node) == \E k \in 1..Len(node.functions) : ~hasFrame(node, k)

(***************************************************************************)
(* C17 as stated: a Window node compiles to text of that form, and when    *)
(* the context has no frame for one of its functions the compile fails     *)
(* fatally: it does not return none.                                       *)
(***************************************************************************)
C17_MissingFrameFatal ==
    (Compiled /\ probe.node.kind = "Window")
    => IF lacksFrame(probe.node) THEN probe.sql.tag = "throw"
       ELSE probe.sql.tag = "sql"
            => WindowTextOk(probe.node, probe.sql.text)

(***************************************************************************)
(* C17, amended: the same, except that a Window node whose source's output *)
(* type is not supported by DWRF compiles to none before any frame is      *)
(* looked up, so a missing frame is fatal only when that type is           *)
(* supported.                                                              *)
(***************************************************************************)
C17_MissingFrameFatalAfterTypeCheck ==
    (Compiled /\ probe.node.kind = "Window")
    => IF ~probe.node.sources[1].dwrf THEN probe.sql = NullOpt
       ELSE IF lacksFrame(probe.node) THEN probe.sql = Thrown(OutOfRange)
       ELSE probe.sql.tag = "sql"
            => WindowTextOk(probe.node, probe.sql.text)

C17_Witness ==
    /\ Compiled
    /\ probe.node.kind = "Window"
    /\ Len(probe.node.functions) = 2
    /\ probe.node.functions[1].ignoreNulls
    /\ ~probe.node.functions[2].ignoreNulls
    /\ probe.sql.tag = "sql"
    /\ WindowTextOk(probe.node, probe.sql.text)

(***************************************************************************)
(* C18: for a RowNumber or TopNRowNumber node whose output type declares   *)
(* the rank column, the column of row_number() in the text carries the     *)
(* declared name, and the outer query of TopNRowNumber filters on that     *)
(* column with "<= limit".                                                 *)
(***************************************************************************)
AsPosition(text) ==
    CHOOSE p \in 1..Len(text) :
        text[p] = ") as" /\ \A q \in 1..(p - 1) : text[q] # ") as"

DeclaredRankName(node) == node.names[Len(node.names)]

C18_RankColumnNamed ==
    (Compiled /\ probe.node.kind \in {"RowNumber", "TopNRowNumber"}
        /\ probe.node.generateRowNumber /\ probe.sql.tag = "sql")
    => LET text == probe.sql.text
       IN  /\ text[AsPosition(text) + 1] = DeclaredRankName(probe.node)
           /\ probe.node.kind = "TopNRowNumber"
              => SubSeq(text, Len(text) - 3, Len(text))
                    = <<"where", DeclaredRankName(probe.node), "<=",
                        probe.node.limit>>

(***************************************************************************)
(* C19 as stated: calls that materialize the same table name are           *)
(* serialized, so the query of every call reads, from each of its tables,  *)
(* exactly the data the call wrote there.                                  *)
(***************************************************************************)
ReadsOwnData(s) ==
    \A t \in DOMAIN s.inputMap : s.read[t] = {s.inputMap[t]}

C19_SerializedPerTable ==
    \A c \in DOMAIN calls : calls[c].read # NoRead => ReadsOwnData(calls[c])

(***************************************************************************)
(* C19, amended: the runner does not serialize; the query of a call reads  *)
(* exactly the data the call wrote when no other call uses one of the      *)
(* call's table names.                                                     *)
(***************************************************************************)
DisjointTables(c, d) ==
    DOMAIN calls[c].inputMap \cap DOMAIN calls[d].inputMap = {}

C19_OwnDataWhenNamesUnique ==
    \A c \in DOMAIN calls :
        (calls[c].read # NoRead
            /\ \A d \in DOMAIN calls \ {c} : DisjointTables(c, d))
        => ReadsOwnData(calls[c])

C19_Witness ==
    /\ DOMAIN calls = ConcCallers
    /\ calls[1].read # NoRead
    /\ ReadsOwnData(calls[1])
    /\ calls[2].pc = "write"
    /\ DisjointTables(1, 2)

(***************************************************************************)
(* C20: two calls on plans with disjoint input table names each return,    *)
(* under every interleaving, what they return alone: the query's rows with *)
(* Success, the query having read the call's own data.  A call alone       *)
(* always returns that (AloneSucceeds).                                    *)
(***************************************************************************)
ReturnsAsAlone(s) ==
    /\ s.result.code = "Success"
    /\ s.result.rows = Rows(materialize(queryResults(
                              Body(FALSE, NoError, NoUri, MaxPages), 1)))
    /\ s.read # NoRead
    /\ ReadsOwnData(s)

AloneSucceeds ==
    \A c \in DOMAIN calls :
        (calls[c].pc = "done" /\ \A d \in DOMAIN calls \ {c} :
                                    calls[d].pc = "idle")
        => ReturnsAsAlone(calls[c])

C20_Reentrant ==
    \A c \in DOMAIN calls :
        (calls[c].pc = "done"
            /\ \A d \in DOMAIN calls \ {c} : DisjointTables(c, d))
        => ReturnsAsAlone(calls[c])

(***************************************************************************)
(* C21: for one table a call posts DROP TABLE IF EXISTS, CREATE TABLE AS   *)
(* SELECT of the all-null row, SELECT "$path" and DELETE FROM, in this     *)
(* order and each once, every one after the one before has completed; the  *)
(* file is written after the DELETE has completed, into the directory      *)
(* that holds the file the server reported; and a call that has failed     *)
(* posts and writes nothing more.                                          *)
(***************************************************************************)
RECURSIVE SelectTable(_, _)
SelectTable(log, t) ==
    IF log = <<>> THEN <<>>
    ELSE (IF Head(log).table = t THEN <<Head(log).op>> ELSE <<>>)
         \o SelectTable(Tail(log), t)

MaterializeOrder == <<"DROP", "CREATE", "PATH", "DELETE", "WRITE">>

C21_StateOk ==
    \A c \in DOMAIN calls :
        \A k \in 1..Len(calls[c].order) :
            LET steps == SelectTable(calls[c].log, calls[c].order[k])
            IN  /\ IsPrefix(steps, MaterializeOrder)
                /\ k < calls[c].idx => steps = MaterializeOrder
                /\ k > calls[c].idx => steps = <<>>

\* The log of call c grows by one entry in this step.
Logged(c) ==
    /\ Len(calls'[c].log) = Len(calls[c].log) + 1
    /\ SubSeq(calls'[c].log, 1, Len(calls[c].log)) = calls[c].log

C21_StepOk ==
    \A c \in DOMAIN calls :
        /\ calls[c].pc \in {"done", "thrown"}
              => calls'[c].log \in {calls[c].log, <<>>}
        /\ calls'[c].log # calls[c].log /\ calls'[c].log # <<>> => Logged(c)
        /\ Logged(c) =>
              LET e == Last(calls'[c].log)
              IN  /\ e.op \in {"CREATE", "PATH", "DELETE"} =>
                        /\ calls[c].returned.has
                        /\ queryCompleted(Last(calls[c].responses))
                        /\ Last(calls[c].log).table = e.table
                  /\ e.op = "WRITE" =>
                        /\ Last(calls[c].log)
                              = Statement("DELETE", e.table, 0, <<>>)
                        /\ calls[c].returned.has
                        /\ queryCompleted(Last(calls[c].responses))
                        /\ calls[c].tableDirectoryPath \o <<"placeholder.dwrf">>
                              = PlaceholderPath(e.table)
                        /\ engine'[e.table].file = calls[c].inputMap[e.table]
                        /\ \A t \in DOMAIN engine \ {e.table} :
                              engine'[t] = engine[t]

C21_MaterializeInOrder == []C21_StateOk /\ [][C21_StepOk]_vars

C21_Witness ==
    \E c \in DOMAIN calls :
        /\ calls[c].pc = "done"
        /\ calls[c].cause = "engine"
        /\ Len(calls[c].order) = 2
        /\ SelectTable(calls[c].log, calls[c].order[1]) = MaterializeOrder
        /\ SelectTable(calls[c].log, calls[c].order[2])
              = <<"DROP", "CREATE", "PATH">>

(***************************************************************************)
(* C22 as stated: a Project, Aggregation, Window, RowNumber,               *)
(* TopNRowNumber or TableWrite node whose source compiles to none          *)
(* compiles to none.                                                       *)
(***************************************************************************)
sourceIsNone(node) ==
    node.kind \in SingleSourceKinds /\ toSql(node.sources[1]) = NullOpt

C22_NoneSourceIsNone ==
    (Compiled /\ sourceIsNone(probe.node)) => probe.sql = NullOpt

(***************************************************************************)
(* C22, amended: such a node never compiles to SQL text.  It compiles to   *)
(* none, except that an Aggregation whose step is not single fails on the  *)
(* step check, and a Window over a source of a supported type with a       *)
(* function that has no frame fails on the frame lookup; both happen       *)
(* before the source is compiled.                                          *)
(***************************************************************************)
C22_NoneSourceNeverSql ==
    (Compiled /\ sourceIsNone(probe.node))
    => IF probe.node.kind = "Aggregation" /\ probe.node.step # "single"
       THEN probe.sql = Thrown(VeloxRuntimeError(<<"step == kSingle">>))
       ELSE IF /\ probe.node.kind = "Window"
               /\ probe.node.sources[1].dwrf
               /\ lacksFrame(probe.node)
       THEN probe.sql = Thrown(OutOfRange)
       ELSE probe.sql = NullOpt

C22_Witness ==
    /\ Compiled
    /\ probe.node.kind = "TableWrite"
    /\ probe.node.sources[1].kind = "Project"
    /\ probe.node.sources[1].sources[1].kind = "RowNumber"
    /\ toSql(probe.node.sources[1].sources[1]) = NullOpt
    /\ probe.sql = NullOpt

(***************************************************************************)
(* C23 as stated: the text of a single-step Aggregation is SELECT, the     *)
(* grouping keys and the aggregates as one comma-separated list, FROM,     *)
(* the source's text in parentheses, and GROUP BY with the grouping keys   *)
(* exactly when there are any; an aggregate is its call, then              *)
(* filter (where <mask>) exactly when it has a mask, then as <name> with   *)
(* the names in their declared order.                                      *)
(***************************************************************************)
AggregateItem(node, i) ==
    toAggregateCallSql(node.aggregates[i].call, node.aggregates[i].sortingKeys,
                       node.aggregates[i].distinct)
    \o (IF node.aggregates[i].mask.has
        THEN <<"filter (where", node.aggregates[i].mask.v, ")">>
        ELSE <<>>)
    \o <<"as", node.aggregateNames[i]>>

SelectItems(node) ==
    [i \in 1..Len(node.groupingKeys) |-> <<node.groupingKeys[i]>>]
    \o [i \in 1..Len(node.aggregates) |-> AggregateItem(node, i)]

GroupByClause(node) ==
    IF node.groupingKeys = <<>> THEN <<>>
    ELSE <<"GROUP BY">> \o NameList(node.groupingKeys)

AggregationCompiled ==
    Compiled /\ probe.node.kind = "Aggregation" /\ probe.sql.tag = "sql"

C23_AggregationFormParenthesized ==
    AggregationCompiled
    => probe.sql.text
         = <<"SELECT">> \o CommaList(SelectItems(probe.node))
           \o <<"FROM", "(">> \o toSql(probe.node.sources[1]).text \o <<")">>
           \o GroupByClause(probe.node)

(***************************************************************************)
(* C23, amended: the same form, with the source's text written after FROM  *)
(* as it is, without parentheses around it.                                *)
(***************************************************************************)
C23_AggregationForm ==
    AggregationCompiled
    => probe.sql.text
         = <<"SELECT">> \o CommaList(SelectItems(probe.node))
           \o <<"FROM">> \o toSql(probe.node.sources[1]).text
           \o GroupByClause(probe.node)

C23_Witness ==
    /\ AggregationCompiled
    /\ probe.node.sources[1].kind = "Project"
    /\ Len(probe.node.groupingKeys) = 2
    /\ Len(probe.node.aggregates) = 2
    /\ probe.node.aggregates[1].mask.has
    /\ ~probe.node.aggregates[2].mask.has
    /\ probe.sql.text[FromPosition(probe.sql.text) + 1] = "SELECT"

(***************************************************************************)
(* C24: in the CTAS of a TableWrite node PARTITIONED_BY is written, with   *)
(* the handle's partition-key columns, exactly when the handle is          *)
(* partitioned; BUCKET_COUNT and BUCKETED_BY are written exactly when the  *)
(* handle has a bucket property; and SORTED_BY, with each column followed  *)
(* by ASC or DESC, is written exactly when that bucket property has sort   *)
(* columns.                                                                *)
(***************************************************************************)
Tokens(text) == { text[i] : i \in 1..Len(text) }

\* The tokens of text from the one after keyword up to the next "],".
ArrayAfter(text, keyword) ==
    LET p == CHOOSE i \in 1..Len(text) : text[i] = keyword
        q == CHOOSE j \in (p + 1)..Len(text) :
                 text[j] = "]," /\ \A k \in (p + 1)..(j - 1) : text[k] # "],"
    IN  SubSeq(text, p + 1, q - 1)

TableWriteCompiled ==
    Compiled /\ probe.node.kind = "TableWrite" /\ probe.sql.tag = "sql"

C24_HandleMetadata ==
    TableWriteCompiled
    => LET handle == probe.node.handle
           bucket == handle.bucketProperty
           text == probe.sql.text
       IN  /\ "PARTITIONED_BY = ARRAY[" \in Tokens(text)
                 <=> isPartitioned(handle)
           /\ isPartitioned(handle)
                 => ArrayAfter(text, "PARTITIONED_BY = ARRAY[")
                      = NameList(partitionKeysOf(handle.inputColumns))
           /\ "BUCKET_COUNT =" \in Tokens(text) <=> bucket.has
           /\ "BUCKETED_BY = ARRAY[" \in Tokens(text) <=> bucket.has
           /\ "SORTED_BY = ARRAY[" \in Tokens(text)
                 <=> (bucket.has /\ bucket.sortedBy # <<>>)

(***************************************************************************)
(* C25: queryResults on a response without binaryData field gives no batch *)
(* and does not look at the columns field, whatever that field holds; on a *)
(* response with binaryData whose columns parse and whose entries decode   *)
(* it gives one batch per entry, in the entries' order, each holding the   *)
(* decoded entry under the row type of the columns' names and parsed       *)
(* types in the columns' order.                                            *)
(***************************************************************************)
Decoded == probe.fn = "queryResults" /\ probe.done

WellFormed(response) ==
    /\ response.columns.has
    /\ \A i \in 1..Len(response.columns.v) :
          response.columns.v[i].type \in TypeTexts
    /\ \A i \in 1..Len(response.binaryData.v) :
          response.binaryData.v[i] \in Encoded

C25_BatchPerEntry ==
    Decoded
    => LET data == probe.response.binaryData
           columns == probe.response.columns
           out == probe.vectors
       IN  /\ ~data.has
                 => /\ out.tag = "ok"
                    /\ out.v = <<>>
                    /\ "columns" \notin out.read
           /\ data.has /\ WellFormed(probe.response)
                 => /\ out.tag = "ok"
                    /\ Len(out.v) = Len(data.v)
                    /\ \A i \in 1..Len(data.v) :
                          /\ out.v[i].data = Base64Decode(data.v[i])
                          /\ Len(out.v[i].type.names) = Len(columns.v)
                          /\ Len(out.v[i].type.types) = Len(columns.v)
                          /\ \A j \in 1..Len(columns.v) :
                                /\ out.v[i].type.names[j] = columns.v[j].name
                                /\ out.v[i].type.types[j]
                                      = parseType(columns.v[j].type)

C25_Witness ==
    /\ Decoded
    /\ probe.response.binaryData = Field(<<"cDI=", "cDE=">>)
    /\ Len(probe.response.columns.v) = 2
    /\ probe.response.columns.v[1].type # probe.response.columns.v[2].type
    /\ probe.response.columns.v[1].name # probe.response.columns.v[2].name
    /\ probe.vectors.tag = "ok"
    /\ Len(probe.vectors.v) = 2

(***************************************************************************)
(* C26: once execute(sql) has begun it ends, by returning or by raising,   *)
(* given that every request comes back and that the server at some point   *)
(* answers without nextUri, with an error field, or not with 200; and the  *)
(* client never stops by itself: whenever a response without error field   *)
(* carries a nextUri, whatever the number of requests made so far, the     *)
(* client's next step is the GET of that nextUri.                          *)
(***************************************************************************)
Continuing(response) ==
    response.error = NoError /\ response.nextUri # NoUri

\* Call c receives a response in this step.
Received(c) ==
    /\ calls'[c].responses # <<>>
    /\ \/ Len(calls'[c].responses) = Len(calls[c].responses) + 1
       \/ calls[c].pc = "post"

C26_PollsOn ==
    \A c \in Callers :
        Received(c) /\ Continuing(Last(calls'[c].responses))
        => /\ calls'[c].pc = "poll"
           /\ Len(calls'[c].requests) = Len(calls'[c].responses)

C26_GetFollows ==
    \A c \in Callers :
        calls[c].pc = "poll"
        => /\ Continuing(Last(calls[c].responses))
           /\ ENABLED Get(c)
           /\ calls'[c] # calls[c]
                 => Last(calls'[c].requests)
                      = Request("GET", Last(calls[c].responses).nextUri,
                                NoStatement)

C26_Terminates ==
    /\ [][C26_PollsOn /\ C26_GetFollows]_vars
    /\ \A c \in Callers :
          (calls[c].pc \in {"post", "poll"})
              ~> (calls[c].pc \in {"done", "thrown"})

C26_Witness ==
    \E c \in Callers :
        /\ calls[c].pc = "done"
        /\ Len(calls[c].requests) = MaxPolls + 1
        /\ Len(calls[c].responses) = MaxPolls + 1
        /\ \A i \in 1..MaxPolls : Continuing(calls[c].responses[i])
====
